---- MODULE Spec2Model ----
(***************************************************************************)
(* Model of analysis_app/views.py: the dataset_description request handler *)
(* (validation, pd.read_csv, get_dataset_info, analyze_with_gemini with    *)
(* its local fallback, metrics, response assembly).                        *)
(*                                                                         *)
(* A data frame is modelled by what the handler observes of it: len(df),   *)
(* df.columns, df.dtypes and df.isnull().sum().  An uploaded CSV file is   *)
(* modelled column-wise: for each header column the kind of its non-empty  *)
(* cells and the number of its empty cells; pd.read_csv turns that into    *)
(* dtypes and null counts.  Python strings are TLA+ strings.               *)
(***************************************************************************)
EXTENDS Integers, Sequences, FiniteSets, TLC

VARIABLES
    pc,               \* position of the handler in dataset_description
    request,          \* the HTTP request being served
    df,               \* the parsed table (views.py:178)
    dataset_info,     \* result of get_dataset_info (views.py:193)
    gemini_analysis,  \* result of analyze_with_gemini (views.py:196)
    ai_failed,        \* TRUE when analyze_with_gemini took its except branch
    metrics,          \* the metrics dict (views.py:199-209)
    response,         \* the Response returned to the client
    steps,            \* which of summarization / AI call / metrics ran in this request
    fb_df,            \* table under direct test of analyze_with_gemini
    fb_cur,           \* latest failing call of analyze_with_gemini on fb_df
    fb_prev           \* the failing call before it, on the same fb_df

vars == <<pc, request, df, dataset_info, gemini_analysis, ai_failed, metrics,
          response, steps, fb_df, fb_cur, fb_prev>>

handlerVars == <<pc, request, df, dataset_info, gemini_analysis, ai_failed,
                 metrics, response, steps>>

fbVars == <<fb_df, fb_cur, fb_prev>>

-----------------------------------------------------------------------------
(* Bounds *)

MaxRows == 2       \* data rows of an uploaded file, handler runs
MaxCols == 2       \* header columns of an uploaded file, handler runs
WideCols == 6      \* columns of the wide one-row files given to the fallback
TallRows == 11     \* rows of the tall files given to the fallback
TallCols == 2      \* columns of the tall files
TallEmpty == 1     \* empty cells per column of the tall files

(* Program constants *)

HeadRows == 5          \* df.head()
NoteLimit == 100       \* error_msg[:100]
ListLimit == 3         \* numeric_cols[:3], categorical_cols[:3]
IssueLimit == 5        \* list(missing_cols.items())[:5]

-----------------------------------------------------------------------------
(* Python string helpers *)

Min(a, b) == IF a < b THEN a ELSE b

\* s[:n]
Take(s, n) == SubSeq(s, 1, Min(n, Len(s)))

\* pat in s
Contains(s, pat) ==
    \E i \in 1..(Len(s) - Len(pat) + 1) : SubSeq(s, i, i + Len(pat) - 1) = pat

UpperLetters == "ABCDEFGHIJKLMNOPQRSTUVWXYZ"
LowerLetters == "abcdefghijklmnopqrstuvwxyz"

UpperSet == {SubSeq(UpperLetters, i, i) : i \in 1..26}

LowerMap ==
    [c \in UpperSet |->
        LET i == CHOOSE i \in 1..26 : SubSeq(UpperLetters, i, i) = c
        IN SubSeq(LowerLetters, i, i)]

LowerChar(c) == IF c \in UpperSet THEN LowerMap[c] ELSE c

RECURSIVE Lower(_)
\* s.lower()
Lower(s) ==
    IF Len(s) = 0 THEN ""
    ELSE IF Len(s) = 1 THEN LowerChar(s)
    ELSE Lower(SubSeq(s, 1, Len(s) \div 2)) \o Lower(SubSeq(s, Len(s) \div 2 + 1, Len(s)))

\* s.lower().endswith(suffix)
EndsWithAnyCase(s, suffix) ==
    /\ Len(s) >= Len(suffix)
    /\ Lower(SubSeq(s, Len(s) - Len(suffix) + 1, Len(s))) = suffix

\* s.endswith(suffix)
EndsWith(s, suffix) ==
    /\ Len(s) >= Len(suffix)
    /\ SubSeq(s, Len(s) - Len(suffix) + 1, Len(s)) = suffix

RECURSIVE Join(_, _)
\* sep.join(names)
Join(names, sep) ==
    IF Len(names) = 0 THEN ""
    ELSE IF Len(names) = 1 THEN names[1]
    ELSE names[1] \o sep \o Join(Tail(names), sep)

Pad3(n) ==
    IF n < 10 THEN "00" \o ToString(n)
    ELSE IF n < 100 THEN "0" \o ToString(n)
    ELSE ToString(n)

RECURSIVE Comma(_)
\* f"{n:,}"
Comma(n) ==
    IF n < 1000 THEN ToString(n)
    ELSE Comma(n \div 1000) \o "," \o Pad3(n % 1000)

\* f"{(missing / cells * 100):.2f}"; the numerator is a numpy integer, so a
\* zero cell count yields nan instead of raising
Percent2f(missing, cells) ==
    IF cells = 0 THEN "nan"
    ELSE LET num == missing * 10000
             q   == num \div cells
             r2  == 2 * (num % cells)
             h   == IF r2 > cells \/ (r2 = cells /\ q % 2 = 1) THEN q + 1 ELSE q
             frac == h % 100
         IN ToString(h \div 100) \o "."
              \o (IF frac < 10 THEN "0" \o ToString(frac) ELSE ToString(frac))

RECURSIVE SumSeq(_)
SumSeq(s) == IF Len(s) = 0 THEN 0 ELSE s[1] + SumSeq(Tail(s))

RECURSIVE SelectIdx(_, _, _)
\* indices i of 1..n with keep[i], in increasing order
SelectIdx(keep, i, n) ==
    IF i > n THEN <<>>
    ELSE (IF keep[i] THEN <<i>> ELSE <<>>) \o SelectIdx(keep, i + 1, n)

-----------------------------------------------------------------------------
(* JSON values.  A value is a record of fixed shape; "members" holds the   *)
(* members of an object, one level deep.                                   *)

Leaf(type, text, items) == [type |-> type, text |-> text, items |-> items]

NoMembers == [k \in {} |-> Leaf("null", "", <<>>)]

JNull == [type |-> "null", text |-> "", items |-> <<>>, members |-> NoMembers]
JStr(s) == [type |-> "string", text |-> s, items |-> <<>>, members |-> NoMembers]
JNum(s) == [type |-> "number", text |-> s, items |-> <<>>, members |-> NoMembers]
JList(xs) == [type |-> "list", text |-> "", items |-> xs, members |-> NoMembers]
JObj(m) == [type |-> "object", text |-> "", items |-> <<>>, members |-> m]

NoFields == [k \in {} |-> JNull]

\* a parsed JSON document: a dict of fields, or a value of another type
Dict(fields) == [type |-> "object", fields |-> fields]
NonDict(type) == [type |-> type, fields |-> NoFields]

NarrativeKeys == {"dataset_description", "key_insights", "data_quality", "recommendations"}

-----------------------------------------------------------------------------
(* Uploaded files and pd.read_csv *)

ColName(i) == "c" \o ToString(i)

\* a column of a file with n data rows: the kind of its non-empty cells and
\* how many cells are empty; text and boolean columns have a non-empty cell
CellOptions(n, maxEmpty) ==
    {c \in [kind : {"num", "txt", "bool"}, empty : 0..Min(n, maxEmpty)] :
        c.kind # "num" => c.empty < n}

FilesOf(kinds, colCounts, rowCounts, maxEmpty) ==
    UNION {UNION {{[malformed |-> FALSE, nrows |-> n, cols |-> cs] :
                       cs \in [1..k -> {c \in CellOptions(n, maxEmpty) : c.kind \in kinds}]} :
                  n \in rowCounts} :
           k \in colCounts}

MalformedFile == [malformed |-> TRUE, nrows |-> 0, cols |-> <<>>]
BlankFile == [malformed |-> FALSE, nrows |-> 0, cols |-> <<>>]

\* dtype pandas infers for a column
InferDtype(c) ==
    CASE c.kind = "txt" -> "object"
      [] c.kind = "bool" -> IF c.empty = 0 THEN "bool" ELSE "object"
      [] OTHER -> IF c.empty = 0 THEN "int64" ELSE "float64"

NoDf == [rows |-> 0, columns |-> <<>>, dtypes |-> <<>>, isnull |-> <<>>]

\* pd.read_csv raises on unparsable content and on a file without columns
ReadCsvRaises(file) == file.malformed \/ Len(file.cols) = 0

ReadCsvError(file) ==
    IF file.malformed THEN "Error tokenizing data. C error: Expected 1 fields in line 3, saw 2"
    ELSE "No columns to parse from file"

read_csv(file) ==
    [rows    |-> file.nrows,
     columns |-> [i \in 1..Len(file.cols) |-> ColName(i)],
     dtypes  |-> [i \in 1..Len(file.cols) |-> InferDtype(file.cols[i])],
     isnull  |-> [i \in 1..Len(file.cols) |-> file.cols[i].empty]]

\* empty only when both axes are
IsEmptyBothAxes(d) == d.rows = 0 /\ Len(d.columns) = 0

\* df.empty
IsEmpty(d) == d.rows = 0 \/ Len(d.columns) = 0

IsNumber(dtype) == dtype \in {"int64", "float64"}
\* everything that is not an integer column
IsObjectOrFloat(dtype) == dtype \in {"object", "float64"}
IsObject(dtype) == dtype = "object"

\* df.select_dtypes(include=['number']).columns.tolist()
NumericColumns(d) ==
    LET idx == SelectIdx([i \in 1..Len(d.columns) |-> IsNumber(d.dtypes[i])], 1, Len(d.columns))
    IN [j \in 1..Len(idx) |-> d.columns[idx[j]]]

\* df.select_dtypes(include=['object']).columns.tolist()
CategoricalColumns(d) ==
    LET idx == SelectIdx([i \in 1..Len(d.columns) |-> IsObject(d.dtypes[i])], 1, Len(d.columns))
    IN [j \in 1..Len(idx) |-> d.columns[idx[j]]]

\* df.isnull().sum().sum()
TotalMissing(d) == SumSeq(d.isnull)

\* missing_summary[missing_summary > 0].to_dict(), as column indices in order
MissingCols(d) ==
    SelectIdx([i \in 1..Len(d.columns) |-> d.isnull[i] > 0], 1, Len(d.columns))

-----------------------------------------------------------------------------
(* get_dataset_info *)

NoInfo == [head |-> 0, describe |-> <<>>, info |-> <<>>]

\* the three text blocks, by what they report: the rows previewed by
\* df.head(), the columns df.describe() summarises, and per column the
\* dtype and non-null count of df.info()
get_dataset_info(d) ==
    [head     |-> Min(d.rows, HeadRows),
     describe |-> NumericColumns(d),
     info     |-> [i \in 1..Len(d.columns) |-> <<d.dtypes[i], d.rows - d.isnull[i]>>]]

-----------------------------------------------------------------------------
(* The remote call and the parsing of its answer *)

\* response.text as a sequence of tokens: "fence_json" (three backticks and
\* the word json), "fence" (three backticks), " " (whitespace), "json" (the
\* text of one JSON document, held in doc), "word" (any other text)
Tok(t) == [tok |-> t, doc |-> NonDict("null")]
JsonTok(doc) == [tok |-> "json", doc |-> doc]

RECURSIVE LStrip(_)
LStrip(text) ==
    IF Len(text) > 0 /\ text[1].tok = " " THEN LStrip(Tail(text)) ELSE text

RECURSIVE RStrip(_)
RStrip(text) ==
    IF Len(text) > 0 /\ text[Len(text)].tok = " "
    THEN RStrip(SubSeq(text, 1, Len(text) - 1))
    ELSE text

\* text.strip()
Strip(text) == RStrip(LStrip(text))

StartsWithFenceJson(text) == Len(text) > 0 /\ text[1].tok = "fence_json"

\* a fence_json token itself starts with three backticks
StartsWithFence(text) == Len(text) > 0 /\ text[1].tok \in {"fence", "fence_json"}

RECURSIVE DropTok(_, _)
DropTok(text, t) ==
    IF Len(text) = 0 THEN <<>>
    ELSE (IF text[1].tok = t THEN <<>> ELSE <<text[1]>>) \o DropTok(Tail(text), t)

\* text.replace(fence_json, '')
ReplaceFenceJson(text) == DropTok(text, "fence_json")

\* text.replace(fence, ''): a fence_json loses its backticks and leaves the
\* word json
ReplaceFence(text) ==
    DropTok([i \in 1..Len(text) |->
                IF text[i].tok = "fence_json" THEN Tok("word") ELSE text[i]], "fence")

\* views.py:87-93
StripFences(text) ==
    LET t == Strip(text)
    IN IF StartsWithFenceJson(t) THEN Strip(ReplaceFence(ReplaceFenceJson(t)))
       ELSE IF StartsWithFence(t) THEN Strip(ReplaceFence(t))
       ELSE t

\* json.loads: exactly one document, whitespace around it allowed
JsonLoadsOk(text) ==
    LET t == DropTok(text, " ") IN Len(t) = 1 /\ t[1].tok = "json"

JsonLoadsValue(text) == DropTok(text, " ")[1].doc

JsonLoadsError(text) ==
    LET t == DropTok(text, " ")
    IN IF Len(t) > 0 /\ t[1].tok = "json"
       THEN "Extra data: line 1 column 2 (char 1)"
       ELSE "Expecting value: line 1 column 1 (char 0)"

\* what model.generate_content / response.text does: raise, or give a text
Raises(msg) == [raises |-> TRUE, error |-> msg, text |-> <<>>]
Returns(text) == [raises |-> FALSE, error |-> "", text |-> text]

-----------------------------------------------------------------------------
(* analyze_with_gemini *)

\* the note without the [:100]
ApiStatusUntruncated(error_msg) ==
    IF Contains(error_msg, "429") \/ Contains(Lower(error_msg), "quota")
    THEN "Rate limit exceeded. Using fallback analysis."
    ELSE "API unavailable: " \o error_msg \o ". Using fallback analysis."

\* views.py:109-112
ApiStatus(error_msg) ==
    IF Contains(error_msg, "429") \/ Contains(Lower(error_msg), "quota")
    THEN "Rate limit exceeded. Using fallback analysis."
    ELSE "API unavailable: " \o Take(error_msg, NoteLimit) \o ". Using fallback analysis."

\* views.py:118: df.isnull().sum().sum() < len(df) * 0.05
Severity(d) ==
    IF TotalMissing(d) * 100 < d.rows * 5 THEN "minimal" ELSE "significant"

\* f"({', '.join(cols[:3])}{', ...' if len(cols) > 3 else ''})"
ListedColumns(cols) ==
    Join(Take(cols, ListLimit), ", ") \o (IF Len(cols) > ListLimit THEN ", ..." ELSE "")

\* views.py:115-119
FallbackDescription(d, error_msg) ==
    "This dataset contains " \o ToString(d.rows) \o " records across "
      \o ToString(Len(d.columns)) \o " features. "
      \o "It includes " \o ToString(Len(NumericColumns(d))) \o " numerical columns ("
      \o ListedColumns(NumericColumns(d)) \o ") "
      \o "and " \o ToString(Len(CategoricalColumns(d))) \o " categorical columns ("
      \o ListedColumns(CategoricalColumns(d)) \o "). "
      \o "The dataset shows " \o Severity(d) \o " missing data patterns. "
      \o "Note: " \o ApiStatus(error_msg)

\* the five insights and one more per column with missing values
FallbackInsightsPerColumn(d) ==
    << "Total records: " \o Comma(d.rows),
       "Total features: " \o ToString(Len(d.columns)),
       "Numerical features: " \o ToString(Len(NumericColumns(d))),
       "Categorical features: " \o ToString(Len(CategoricalColumns(d))),
       "Missing values: " \o Comma(TotalMissing(d)) \o " ("
          \o Percent2f(TotalMissing(d), d.rows * Len(d.columns)) \o "%)" >>
    \o [j \in 1..Len(MissingCols(d)) |-> "Incomplete column: " \o d.columns[MissingCols(d)[j]]]

\* views.py:120-126
FallbackInsights(d) ==
    << "Total records: " \o Comma(d.rows),
       "Total features: " \o ToString(Len(d.columns)),
       "Numerical features: " \o ToString(Len(NumericColumns(d))),
       "Categorical features: " \o ToString(Len(CategoricalColumns(d))),
       "Missing values: " \o Comma(TotalMissing(d)) \o " ("
          \o Percent2f(TotalMissing(d), d.rows * Len(d.columns)) \o "%)" >>

\* views.py:128
FallbackCompleteness(d) ==
    IF Len(MissingCols(d)) > 0
    THEN "Missing values found in " \o ToString(Len(MissingCols(d))) \o " columns"
    ELSE "No missing values detected"

\* the issue list without the [:5]
FallbackIssuesUntruncated(d) ==
    IF Len(MissingCols(d)) > 0
    THEN [j \in 1..Len(MissingCols(d)) |->
            d.columns[MissingCols(d)[j]] \o ": "
              \o ToString(d.isnull[MissingCols(d)[j]]) \o " missing"]
    ELSE <<"Data appears complete">>

\* views.py:129
FallbackIssues(d) ==
    IF Len(MissingCols(d)) > 0
    THEN LET shown == Take(MissingCols(d), IssueLimit)
         IN [j \in 1..Len(shown) |->
               d.columns[shown[j]] \o ": " \o ToString(d.isnull[shown[j]]) \o " missing"]
    ELSE <<"Data appears complete">>

\* views.py:131-135
FallbackRecommendations ==
    << "Examine distribution of numerical features for outliers",
       "Check categorical variables for consistency",
       "Consider feature engineering based on domain knowledge" >>

\* views.py:114-136, the dict the except branch returns
Fallback(d, error_msg) ==
    Dict([k \in NarrativeKeys |->
        CASE k = "dataset_description" -> JStr(FallbackDescription(d, error_msg))
          [] k = "key_insights" -> JList(FallbackInsights(d))
          [] k = "data_quality" ->
               JObj([m \in {"completeness", "potential_issues"} |->
                      IF m = "completeness"
                      THEN Leaf("string", FallbackCompleteness(d), <<>>)
                      ELSE Leaf("list", "", FallbackIssues(d))])
          [] OTHER -> JList(FallbackRecommendations)])

\* an except branch that logs the error and returns nothing
ExceptReturnsNone(d, error_msg) ==
    [failed |-> TRUE, error |-> error_msg, analysis |-> NonDict("null")]

\* views.py:98-136, the except branch: str(e) and the dict it returns
Except(d, error_msg) ==
    [failed |-> TRUE, error |-> error_msg, analysis |-> Fallback(d, error_msg)]

\* the whole function: the try block, and the except branch on any exception
analyze_with_gemini(info, d, outcome) ==
    IF outcome.raises
    THEN Except(d, outcome.error)
    ELSE LET response_text == StripFences(outcome.text)
         IN IF JsonLoadsOk(response_text)
            THEN [failed |-> FALSE, error |-> "", analysis |-> JsonLoadsValue(response_text)]
            ELSE Except(d, JsonLoadsError(response_text))

-----------------------------------------------------------------------------
(* Inputs: requests and behaviours of the remote service *)

Kinds == {"num", "txt", "bool"}

Files == FilesOf(Kinds, 1..MaxCols, 0..MaxRows, MaxRows) \cup {MalformedFile, BlankFile}

FileNames == {"data.csv", "data.txt", "data.CSV"}

Requests ==
    {[method |-> "GET", has_file |-> FALSE, name |-> "", file |-> BlankFile],
     [method |-> "POST", has_file |-> FALSE, name |-> "", file |-> BlankFile]}
    \cup {[method |-> "POST", has_file |-> TRUE, name |-> n, file |-> f] :
             n \in FileNames, f \in Files}

\* a value of the shape the prompt asks for
GoodValue(k) ==
    CASE k = "dataset_description" -> JStr("Sales records of a small shop.")
      [] k = "key_insights" -> JList(<<"insight 1", "insight 2", "insight 3">>)
      [] k = "data_quality" ->
           JObj([m \in {"completeness", "potential_issues"} |->
                  IF m = "completeness" THEN Leaf("string", "complete", <<>>)
                  ELSE Leaf("list", "", <<"none">>)])
      [] OTHER -> JList(<<"recommendation 1", "recommendation 2">>)

\* a value of another shape
OddValue(k) ==
    CASE k = "dataset_description" -> JNum("7")
      [] k = "key_insights" -> JList(<<"only one">>)
      [] k = "data_quality" -> JStr("fine")
      [] OTHER -> JNull

AiDicts ==
    UNION {{Dict([k \in S |-> IF c[k] = "good" THEN GoodValue(k) ELSE OddValue(k)]) :
               c \in [S -> {"good", "odd"}]} :
           S \in SUBSET NarrativeKeys}

AiNonDicts == {NonDict("list"), NonDict("string"), NonDict("number"), NonDict("null")}

FullDoc == Dict([k \in NarrativeKeys |-> GoodValue(k)])

\* ways the model wraps (or spoils) its answer
Wrapped(doc) ==
    { <<Tok("fence_json"), Tok(" "), JsonTok(doc), Tok(" "), Tok("fence")>>,
      <<Tok("fence"), Tok(" "), JsonTok(doc), Tok(" "), Tok("fence")>>,
      <<Tok(" "), JsonTok(doc), Tok(" ")>>,
      <<Tok("fence"), Tok("fence_json"), JsonTok(doc), Tok("fence")>>,
      <<Tok("word"), Tok(" "), Tok("fence_json"), JsonTok(doc), Tok("fence")>>,
      <<JsonTok(doc), Tok(" "), Tok("word")>>,
      <<Tok("word")>>,
      <<>> }

AiTexts ==
    {<<JsonTok(doc)>> : doc \in AiDicts \cup AiNonDicts}
    \cup Wrapped(FullDoc) \cup Wrapped(NonDict("list"))

RECURSIVE Repeat(_, _)
Repeat(c, n) ==
    IF n = 0 THEN ""
    ELSE IF n = 1 THEN c
    ELSE Repeat(c, n \div 2) \o Repeat(c, n - n \div 2)

ErrorTexts ==
    { "429 Resource has been exhausted",
      "QUOTA EXCEEDED for metric generate_content",
      "Connection timed out",
      Repeat("x", NoteLimit) \o "A",
      Repeat("x", NoteLimit) \o "B" }

AiOutcomes == {Raises(m) : m \in ErrorTexts} \cup {Returns(t) : t \in AiTexts}

-----------------------------------------------------------------------------
(* Responses *)

NoMetrics ==
    [total_rows |-> 0, total_columns |-> 0, column_names |-> <<>>,
     column_types |-> <<>>, missing_values |-> <<>>, total_missing |-> 0,
     numeric_columns |-> <<>>, categorical_columns |-> <<>>]

NoAnalysis == NonDict("null")

\* keys is the set of top-level keys of the JSON body
Body(code, keys) ==
    [code |-> code, keys |-> keys, error |-> "", status |-> "", filename |-> "",
     dataset_description |-> JNull, key_insights |-> JNull, data_quality |-> JNull,
     recommendations |-> JNull, metrics |-> NoMetrics]

NoResponse == Body(0, {})

ErrorResponse(code, msg) == [Body(code, {"error"}) EXCEPT !.error = msg]

\* views.py:149-156
HelpResponse ==
    Body(200, {"message", "instructions", "endpoint", "method", "content_type",
               "example_curl"})

SuccessKeys ==
    {"status", "timestamp", "filename", "dataset_description", "key_insights",
     "data_quality", "recommendations", "metrics"}

\* gemini_analysis.get(key), without the default
GetNoDefault(analysis, key, default) ==
    IF key \in DOMAIN analysis.fields THEN analysis.fields[key] ELSE JNull

\* gemini_analysis.get(key, default)
Get(analysis, key, default) ==
    IF key \in DOMAIN analysis.fields THEN analysis.fields[key] ELSE default

\* str(e) of the AttributeError raised by .get on a value that is no dict
NoGetError(type) ==
    "'" \o (CASE type = "list" -> "list"
              [] type = "string" -> "str"
              [] type = "number" -> "int"
              [] OTHER -> "NoneType") \o "' object has no attribute 'get'"

\* views.py:199-209 (memory_usage_mb, a measurement of the library, is left out)
ComputedMetrics(d) ==
    [total_rows          |-> d.rows,
     total_columns       |-> Len(d.columns),
     column_names        |-> d.columns,
     column_types        |-> d.dtypes,
     missing_values      |-> d.isnull,
     total_missing       |-> TotalMissing(d),
     numeric_columns     |-> NumericColumns(d),
     categorical_columns |-> CategoricalColumns(d)]

\* views.py:212-223, or the outer except when a .get fails
Assembled(req, analysis, m) ==
    IF analysis.type # "object"
    THEN ErrorResponse(500, "An error occurred: " \o NoGetError(analysis.type))
    ELSE [Body(200, SuccessKeys) EXCEPT
            !.status = "success",
            !.filename = req.name,
            !.dataset_description = Get(analysis, "dataset_description", JStr("")),
            !.key_insights = Get(analysis, "key_insights", JList(<<>>)),
            !.data_quality = Get(analysis, "data_quality", JObj(NoMembers)),
            !.recommendations = Get(analysis, "recommendations", JList(<<>>)),
            !.metrics = m]

-----------------------------------------------------------------------------
(* The handler dataset_description, step by step *)

NoCall == [called |-> FALSE, error |-> "", analysis |-> NoAnalysis]

\* no request is being served
NoRequest == [method |-> "GET", has_file |-> FALSE, name |-> "", file |-> BlankFile]

Init ==
    /\ pc = "idle"
    /\ request = NoRequest
    /\ df = NoDf
    /\ dataset_info = NoInfo
    /\ gemini_analysis = NoAnalysis
    /\ ai_failed = FALSE
    /\ metrics = NoMetrics
    /\ response = NoResponse
    /\ steps = {}
    /\ fb_df = NoDf
    /\ fb_cur = NoCall
    /\ fb_prev = NoCall

\* a request arrives
Receive ==
    /\ pc = "idle"
    /\ \E r \in Requests : request' = r
    /\ pc' = "dispatch"
    /\ UNCHANGED <<df, dataset_info, gemini_analysis, ai_failed, metrics, response, steps>>
    /\ UNCHANGED fbVars

\* the response is sent and every value of the request is discarded
Return ==
    /\ pc = "done"
    /\ pc' = "idle"
    /\ request' = NoRequest
    /\ df' = NoDf
    /\ dataset_info' = NoInfo
    /\ gemini_analysis' = NoAnalysis
    /\ ai_failed' = FALSE
    /\ metrics' = NoMetrics
    /\ response' = NoResponse
    /\ steps' = {}
    /\ UNCHANGED fbVars

Finish(resp) ==
    /\ response' = resp
    /\ pc' = "done"

\* views.py:148-156
ServeGet ==
    /\ pc = "dispatch"
    /\ request.method = "GET"
    /\ Finish(HelpResponse)
    /\ UNCHANGED <<request, df, dataset_info, gemini_analysis, ai_failed, metrics, steps>>
    /\ UNCHANGED fbVars

\* views.py:161-165
CheckFile ==
    /\ pc = "dispatch"
    /\ request.method = "POST"
    /\ IF ~request.has_file
       THEN Finish(ErrorResponse(400, "No file uploaded. Please upload a CSV file."))
       ELSE pc' = "check_ext" /\ UNCHANGED response
    /\ UNCHANGED <<request, df, dataset_info, gemini_analysis, ai_failed, metrics, steps>>
    /\ UNCHANGED fbVars

\* views.py:170-174
CheckExtension ==
    /\ pc = "check_ext"
    /\ IF ~EndsWith(request.name, ".csv")
       THEN Finish(ErrorResponse(400, "Invalid file type. Please upload a CSV file."))
       ELSE pc' = "read_csv" /\ UNCHANGED response
    /\ UNCHANGED <<request, df, dataset_info, gemini_analysis, ai_failed, metrics, steps>>
    /\ UNCHANGED fbVars

\* views.py:177-183
ReadCsv ==
    /\ pc = "read_csv"
    /\ IF ReadCsvRaises(request.file)
       THEN /\ Finish(ErrorResponse(400, "Error reading CSV file: " \o ReadCsvError(request.file)))
            /\ UNCHANGED df
       ELSE /\ df' = read_csv(request.file)
            /\ pc' = "check_empty"
            /\ UNCHANGED response
    /\ UNCHANGED <<request, dataset_info, gemini_analysis, ai_failed, metrics, steps>>
    /\ UNCHANGED fbVars

\* views.py:186-190
CheckEmpty ==
    /\ pc = "check_empty"
    /\ IF IsEmpty(df)
       THEN Finish(ErrorResponse(400, "The uploaded CSV file is empty."))
       ELSE pc' = "summarize" /\ UNCHANGED response
    /\ UNCHANGED <<request, df, dataset_info, gemini_analysis, ai_failed, metrics, steps>>
    /\ UNCHANGED fbVars

\* views.py:193
GetDatasetInfo ==
    /\ pc = "summarize"
    /\ dataset_info' = get_dataset_info(df)
    /\ steps' = steps \cup {"summary"}
    /\ pc' = "analyze"
    /\ UNCHANGED <<request, df, gemini_analysis, ai_failed, metrics, response>>
    /\ UNCHANGED fbVars

\* views.py:196; the remote service answers in any of the modelled ways
AnalyzeWithGemini ==
    /\ pc = "analyze"
    /\ \E outcome \in AiOutcomes :
         \E r \in {analyze_with_gemini(dataset_info, df, outcome)} :
            /\ gemini_analysis' = r.analysis
            /\ ai_failed' = r.failed
    /\ steps' = steps \cup {"ai"}
    /\ pc' = "metrics"
    /\ UNCHANGED <<request, df, dataset_info, metrics, response>>
    /\ UNCHANGED fbVars

\* views.py:199-209
ComputeMetrics ==
    /\ pc = "metrics"
    /\ metrics' = ComputedMetrics(df)
    /\ steps' = steps \cup {"metrics"}
    /\ pc' = "assemble"
    /\ UNCHANGED <<request, df, dataset_info, gemini_analysis, ai_failed, response>>
    /\ UNCHANGED fbVars

\* views.py:212-229
Assemble ==
    /\ pc = "assemble"
    /\ Finish(Assembled(request, gemini_analysis, metrics))
    /\ UNCHANGED <<request, df, dataset_info, gemini_analysis, ai_failed, metrics, steps>>
    /\ UNCHANGED fbVars

Next ==
    \/ Receive
    \/ ServeGet
    \/ CheckFile
    \/ CheckExtension
    \/ ReadCsv
    \/ CheckEmpty
    \/ GetDatasetInfo
    \/ AnalyzeWithGemini
    \/ ComputeMetrics
    \/ Assemble
    \/ Return

Spec == Init /\ [][Next]_vars

-----------------------------------------------------------------------------
(* analyze_with_gemini applied directly, with a failing remote service, to *)
(* tables wider and taller than the handler runs use                       *)

FallbackFiles ==
    FilesOf({"num"}, {WideCols}, {1}, 1)
    \cup FilesOf({"num", "txt"}, {TallCols}, {TallRows}, TallEmpty)
    \cup FilesOf(Kinds, 1..MaxCols, {1}, 1)

\* one behaviour of the remote service for each way the try block fails
FallbackOutcomes ==
    {Raises(m) : m \in ErrorTexts}
    \cup {Returns(<<Tok("word")>>), Returns(<<JsonTok(FullDoc), Tok(" "), Tok("word")>>)}

\* a validated, non-empty table is parsed
FbLoad ==
    /\ fb_df = NoDf
    /\ \E f \in FallbackFiles :
         /\ ~ReadCsvRaises(f)
         /\ ~IsEmpty(read_csv(f))
         /\ fb_df' = read_csv(f)
    /\ fb_cur' = NoCall
    /\ fb_prev' = NoCall
    /\ UNCHANGED handlerVars

\* analyze_with_gemini(get_dataset_info(df), df) with the AI path failing
FbCall ==
    /\ fb_df # NoDf
    /\ \E outcome \in FallbackOutcomes :
         \E r \in {analyze_with_gemini(get_dataset_info(fb_df), fb_df, outcome)} :
            /\ r.failed
            /\ fb_cur' = [called |-> TRUE, error |-> r.error, analysis |-> r.analysis]
    /\ fb_prev' = fb_cur
    /\ fb_df' = fb_df
    /\ UNCHANGED handlerVars

NextFallback == FbLoad \/ FbCall

SpecFallback == Init /\ [][NextFallback]_vars

-----------------------------------------------------------------------------
(* Properties *)

\* the upload passes all four validations, read off the request itself
ValidUpload(req) ==
    /\ req.method = "POST"
    /\ req.has_file
    /\ req.name = "data.csv"
    /\ ~req.file.malformed
    /\ Len(req.file.cols) > 0
    /\ req.file.nrows > 0

Served == pc = "done" /\ request.method = "POST"

\* C1: when a valid upload meets a failing AI path, the response is HTTP 200
\* with status "success" and carries the narrative of the local fallback.
C1_AiFailureAbsorbed ==
    (Served /\ ValidUpload(request) /\ ai_failed) =>
        /\ response.code = 200
        /\ response.status = "success"
        /\ response.dataset_description.type = "string"
        /\ Take(response.dataset_description.text, 22) = "This dataset contains "
        /\ response.key_insights.type = "list"
        /\ response.key_insights.items[1] = "Total records: " \o ToString(request.file.nrows)
        /\ response.data_quality.type = "object"
        /\ response.recommendations.items =
             << "Examine distribution of numerical features for outliers",
                "Check categorical variables for consistency",
                "Consider feature engineering based on domain knowledge" >>

C1_Witness ==
    /\ Served /\ ValidUpload(request) /\ ai_failed
    /\ response.code = 200
    /\ Contains(response.dataset_description.text, "API unavailable: Expecting value")

\* the message of the first validation that fails, "" when none does
FirstFailure(req) ==
    IF ~req.has_file THEN "No file uploaded. Please upload a CSV file."
    ELSE IF req.name # "data.csv" THEN "Invalid file type. Please upload a CSV file."
    ELSE IF req.file.malformed \/ Len(req.file.cols) = 0 THEN "Error reading CSV file: "
    ELSE IF req.file.nrows = 0 THEN "The uploaded CSV file is empty."
    ELSE ""

\* C2: a POST that fails validation never reaches summarization, the AI call
\* or the metrics, and is answered with HTTP 400 and a body holding only the
\* error of the first failing check (missing file, extension, parse, empty).
C2_ValidationRejects ==
    (request.method = "POST" /\ pc # "idle" /\ ~ValidUpload(request)) =>
        /\ steps = {}
        /\ pc = "done" =>
             /\ response.code = 400
             /\ response.keys = {"error"}
             /\ Take(response.error, Len(FirstFailure(request))) = FirstFailure(request)

C2_Witness ==
    /\ Served
    /\ request.has_file /\ request.name = "data.txt" /\ request.file.malformed
    /\ response.code = 400
    /\ response.error = "Invalid file type. Please upload a CSV file."

\* C3: every valid non-empty upload is answered with HTTP 200, status
\* "success" and metrics.total_rows equal to the file's number of data rows,
\* whatever the remote service did.
C3_ValidUploadSucceeds ==
    (Served /\ ValidUpload(request)) =>
        /\ response.code = 200
        /\ response.status = "success"
        /\ response.metrics.total_rows = request.file.nrows

\* the description of a recorded fallback narrative
DescriptionOf(call) == call.analysis.fields["dataset_description"].text

\* C4: the fallback description says "minimal" exactly when the missing
\* values are fewer than 5% of the cells (rows x columns), else "significant".
C4_SeverityByCells ==
    fb_cur.called =>
        LET cells == fb_df.rows * Len(fb_df.columns)
            few   == SumSeq(fb_df.isnull) * 100 < 5 * cells
        IN /\ few <=> Contains(DescriptionOf(fb_cur), "The dataset shows minimal missing data patterns.")
           /\ ~few <=> Contains(DescriptionOf(fb_cur), "The dataset shows significant missing data patterns.")

\* C5 as stated: two failing calls on the same table return identical values
\* for all four narrative fields, whatever the failure texts.
C5_FallbackIgnoresFailure ==
    (fb_cur.called /\ fb_prev.called) => fb_cur.analysis = fb_prev.analysis

RateLimited(msg) == Contains(msg, "429") \/ Contains(Lower(msg), "quota")

\* the two failure texts lead to the same note
SameNote(e1, e2) ==
    \/ RateLimited(e1) /\ RateLimited(e2)
    \/ /\ ~RateLimited(e1) /\ ~RateLimited(e2)
       /\ SubSeq(e1, 1, Min(100, Len(e1))) = SubSeq(e2, 1, Min(100, Len(e2)))

\* C5 amended: two failing calls on the same table return identical
\* key_insights, data_quality and recommendations; dataset_description is
\* identical too when both failure texts carry a rate-limit marker, or neither
\* does and they agree on their first 100 characters.
C5_FallbackDeterministic ==
    (fb_cur.called /\ fb_prev.called) =>
        /\ \A k \in {"key_insights", "data_quality", "recommendations"} :
              fb_cur.analysis.fields[k] = fb_prev.analysis.fields[k]
        /\ SameNote(fb_cur.error, fb_prev.error) =>
              fb_cur.analysis.fields["dataset_description"]
                = fb_prev.analysis.fields["dataset_description"]

C5_Witness ==
    /\ fb_cur.called /\ fb_prev.called
    /\ fb_cur.error # fb_prev.error
    /\ Len(fb_cur.error) > 100
    /\ fb_cur.analysis = fb_prev.analysis

\* the default of each narrative key in the response
DefaultOf(k) ==
    CASE k = "dataset_description" -> JStr("")
      [] k = "key_insights" -> JList(<<>>)
      [] k = "data_quality" -> JObj(NoMembers)
      [] OTHER -> JList(<<>>)

\* C6: when the AI returns a JSON object with any subset of the four keys,
\* the response is HTTP 200, each present key is passed through unchanged and
\* each absent key is replaced by its default ('', [], {}, []).
C6_PartialObjectDefaults ==
    (Served /\ ValidUpload(request) /\ ~ai_failed /\ gemini_analysis.type = "object") =>
        /\ response.code = 200
        /\ \A k \in NarrativeKeys :
              response[k] = IF k \in DOMAIN gemini_analysis.fields
                            THEN gemini_analysis.fields[k]
                            ELSE DefaultOf(k)

C6_Witness ==
    /\ Served /\ ~ai_failed /\ gemini_analysis.type = "object"
    /\ DOMAIN gemini_analysis.fields = {"key_insights"}
    /\ response.code = 200
    /\ response.key_insights = gemini_analysis.fields["key_insights"]
    /\ response.data_quality = JObj(NoMembers)

\* C7: a table that reaches summarization, the AI step or the metrics has at
\* least one row and one column; a header-only or column-less file is
\* rejected with HTTP 400 before any of those steps.
C7_NonEmptyTable ==
    /\ (pc \in {"summarize", "analyze", "metrics", "assemble"} \/ steps # {}) =>
          (df.rows >= 1 /\ Len(df.columns) >= 1)
    /\ (Served /\ request.has_file /\ request.name = "data.csv"
          /\ (request.file.nrows = 0 \/ Len(request.file.cols) = 0)) =>
          (response.code = 400 /\ steps = {})

C7_Witness ==
    /\ Served
    /\ request.has_file /\ request.name = "data.csv"
    /\ ~request.file.malformed
    /\ Len(request.file.cols) >= 1 /\ request.file.nrows = 0
    /\ response.code = 400
    /\ response.error = "The uploaded CSV file is empty."

\* the narrative shape of the data model
WellShaped(r) ==
    /\ r.dataset_description.type = "string"
    /\ r.key_insights.type = "list"
    /\ Len(r.key_insights.items) \in 3..5
    /\ r.data_quality.type = "object"
    /\ {"completeness", "potential_issues"} \subseteq DOMAIN r.data_quality.members
    /\ r.data_quality.members["completeness"].type = "string"
    /\ r.data_quality.members["potential_issues"].type = "list"
    /\ r.recommendations.type = "list"
    /\ Len(r.recommendations.items) \in 2..3

\* C8 as stated: every HTTP 200 response to a POST has the narrative shape,
\* from the AI service or from the fallback alike.
C8_ShapeAlways == (Served /\ response.code = 200) => WellShaped(response)

\* C8 amended: every HTTP 200 response to a POST whose narrative came from
\* the fallback has the narrative shape (a narrative returned by the AI
\* service is passed through as it is).
C8_FallbackShape ==
    (Served /\ response.code = 200 /\ ai_failed) => WellShaped(response)

C8_Witness ==
    /\ Served /\ response.code = 200 /\ ai_failed
    /\ Len(response.key_insights.items) = 5
    /\ Len(response.recommendations.items) = 3
    /\ response.data_quality.members["potential_issues"].items # <<"Data appears complete">>

Range(seq) == {seq[i] : i \in 1..Len(seq)}

\* C9: for a table whose columns are all numeric or text,
\* metrics.numeric_columns and metrics.categorical_columns partition
\* metrics.column_names.
C9_ColumnPartition ==
    (Served /\ response.code = 200
       /\ \A i \in 1..Len(response.metrics.column_types) :
             response.metrics.column_types[i] \in {"int64", "float64", "object"}) =>
        LET m == response.metrics
        IN /\ Range(m.numeric_columns) \cap Range(m.categorical_columns) = {}
           /\ Range(m.numeric_columns) \cup Range(m.categorical_columns) = Range(m.column_names)
           /\ Len(m.numeric_columns) + Len(m.categorical_columns) = Len(m.column_names)

C9_Witness ==
    /\ Served /\ response.code = 200
    /\ response.metrics.column_types = <<"object", "float64">>
    /\ response.metrics.numeric_columns = <<"c2">>
    /\ response.metrics.categorical_columns = <<"c1">>

\* the columns of the table with a missing value, as a set of positions
MissingSet(d) == {i \in 1..Len(d.columns) : d.isnull[i] > 0}

\* the j-th of them in column order
NthMissing(d, j) ==
    CHOOSE i \in MissingSet(d) : Cardinality({h \in MissingSet(d) : h <= i}) = j

\* C10: the fallback's data_quality says "No missing values detected" and
\* ["Data appears complete"] exactly when no column has a missing value;
\* otherwise completeness names the number of columns with missing values and
\* potential_issues lists "<column>: <count> missing" for the first five of
\* them in column order.
C10_DataQuality ==
    fb_cur.called =>
        LET dq     == fb_cur.analysis.fields["data_quality"].members
            issues == dq["potential_issues"].items
            n      == Cardinality(MissingSet(fb_df))
        IN /\ n = 0 <=> issues = <<"Data appears complete">>
           /\ n = 0 <=> dq["completeness"].text = "No missing values detected"
           /\ n > 0 =>
                /\ dq["completeness"].text =
                      "Missing values found in " \o ToString(n) \o " columns"
                /\ Len(issues) = Min(n, 5)
                /\ \A j \in 1..Len(issues) :
                      issues[j] = fb_df.columns[NthMissing(fb_df, j)] \o ": "
                                    \o ToString(fb_df.isnull[NthMissing(fb_df, j)])
                                    \o " missing"

C10_Witness ==
    /\ fb_cur.called
    /\ Cardinality(MissingSet(fb_df)) > 5
    /\ Len(fb_cur.analysis.fields["data_quality"].members["potential_issues"].items) = 5

====
